---- MODULE Spec2Model ----
(***************************************************************************)
(* A model of concap (src/concap/__init__.py): the CommandTree registry,   *)
(* its read-dispatch loop, and the argparse adapter.                       *)
(*                                                                         *)
(* Strings are sequences of one-character strings, so that partition,      *)
(* split and find are computed character by character as Python does.      *)
(***************************************************************************)
EXTENDS Integers, Sequences, FiniteSets, TLC

\* ---------------------------------------------------------------- bounds
\* Number of lines the input source delivers before it is at end-of-input.
MaxInput == 2

\* ------------------------------------------------------------ characters
SP == " "
TAB == "\t"
Whitespace == {SP, TAB}

EMPTY == <<>>
LOGOUT == <<"l", "o", "g", "o", "u", "t">>
HELLO == <<"h", "e", "l", "l", "o">>
LO == <<"l", "o">>
UPHELLO == <<"H", "e", "l", "l", "o">>
XCMD == <<"x">>
WORLD == <<"w", "o", "r", "l", "d">>
FORCE == <<"-", "-", "f", "o", "r", "c", "e">>
MONO == <<"-", "M">>
BOGUS == <<"-", "-", "b", "o", "g", "u", "s">>
HFLAG == <<"-", "h">>
HELPFLAG == <<"-", "-", "h", "e", "l", "p">>
None == <<"<None>">>

\* " command not found" suffix of the message of command_not_found
NotFoundSuffix == <<":", " ", "c", "o", "m", "m", "a", "n", "d", " ", "n", "o", "t", " ", "f", "o", "u", "n", "d">>

\* "unrecognized arguments: " prefix of the message of parse_args
UnrecognizedPrefix == <<"u", "n", "r", "e", "c", "o", "g", "n", "i", "z", "e", "d", " ", "a", "r", "g", "u", "m", "e", "n", "t", "s", ":", " ">>

\* ------------------------------------------------------- str operations
SetMin(S) == CHOOSE m \in S : \A n \in S : m <= n

\* str.partition(" "): <<head, separator, tail>> at the first space.
Partition(s) ==
    LET idx == {i \in 1..Len(s) : s[i] = SP}
    IN  IF idx = {} THEN <<s, EMPTY, EMPTY>>
        ELSE LET i == SetMin(idx)
             IN  <<SubSeq(s, 1, i - 1), <<SP>>, SubSeq(s, i + 1, Len(s))>>

\* str.split(" "): cut at every single space, empty pieces are kept.
RECURSIVE Split(_)
Split(s) ==
    LET p == Partition(s)
    IN  IF p[2] = EMPTY THEN <<s>> ELSE <<p[1]>> \o Split(p[3])

\* " ".join(argv)
RECURSIVE Join(_)
Join(argv) ==
    IF Len(argv) = 0 THEN EMPTY
    ELSE IF Len(argv) = 1 THEN argv[1]
    ELSE argv[1] \o <<SP>> \o Join(Tail(argv))

\* `keyword in s` in place of s.find(keyword): 0 for an occurrence anywhere.
Find_Anywhere(s, keyword) ==
    IF \E i \in 0..(Len(s) - Len(keyword)) :
           SubSeq(s, i + 1, i + Len(keyword)) = keyword
    THEN 0 ELSE -1

\* str.find(keyword): lowest 0-based index of an occurrence, or -1.
Find(s, keyword) ==
    LET idx == {i \in 0..(Len(s) - Len(keyword)) :
                    SubSeq(s, i + 1, i + Len(keyword)) = keyword}
    IN  IF idx = {} THEN -1 ELSE SetMin(idx)

\* `x in args` for a list
InList(x, args) == \E i \in 1..Len(args) : args[i] = x

\* ------------------------------------------------------------- messages
\* What is handed to an output function: a kind and the variable text.
Msg(kind, text) == [kind |-> kind, text |-> text]

\* ------------------------------------------- ConsoleArgumentParser model
\* The parser of concap_test/test1.py: two store_true flags and the
\* implicit help flag.
ForceFlags == {<<"-", "y">>, <<"-", "f">>, FORCE}
MonoFlags == {MONO, <<"-", "-", "m", "o", "n", "o", "c", "h", "r", "o", "m", "e">>,
              <<"-", "-", "n", "o", "c", "o", "l", "o", "r">>}
HelpFlags == {HFLAG, HELPFLAG}

NoneResult == [tag |-> "None", force |-> FALSE, monochrome |-> FALSE]
Namespace(force, monochrome) ==
    [tag |-> "Namespace", force |-> force, monochrome |-> monochrome]

\* _print_message: forwards a non-empty message to the tree's print.
PrintMessage(message) ==
    IF message.kind # "" THEN <<message>> ELSE <<>>

\* exit: never leaves the process, prints the message if there is one.
Exit(status, message) ==
    IF message.kind # "" THEN PrintMessage(message) ELSE <<>>

\* An error that leaves out print_usage().
Error_NoUsage(message) ==
    Exit(2, Msg("error", message))

\* error: print_usage(), then exit(2, "Error: ...").
Error(message) ==
    PrintMessage(Msg("usage", EMPTY)) \o Exit(2, Msg("error", message))

\* parse_known_args on tokens that are exact flag spellings or plain words:
\* a flag sets its destination, the help flag prints the help text and (exit
\* being overridden) parsing goes on, anything else is left over in argv.
RECURSIVE ParseKnownArgs(_)
ParseKnownArgs(args) ==
    IF Len(args) = 0
    THEN [force |-> FALSE, monochrome |-> FALSE, argv |-> <<>>, msgs |-> <<>>]
    ELSE LET t == args[Len(args)]
             r == ParseKnownArgs(SubSeq(args, 1, Len(args) - 1))
         IN  IF t \in ForceFlags THEN [r EXCEPT !.force = TRUE]
             ELSE IF t \in MonoFlags THEN [r EXCEPT !.monochrome = TRUE]
             ELSE IF t \in HelpFlags
                  THEN [r EXCEPT !.msgs = @ \o PrintMessage(Msg("help", EMPTY))
                                             \o Exit(0, Msg("", EMPTY))]
             ELSE [r EXCEPT !.argv = Append(@, t)]

\* ConsoleArgumentParser.parse_args
ParseArgs(args) ==
    LET k == ParseKnownArgs(args)
    IN  IF InList(HFLAG, args) \/ InList(HELPFLAG, args)
        THEN [result |-> NoneResult, msgs |-> k.msgs]
        ELSE IF k.argv # <<>>
        THEN [result |-> NoneResult,
              msgs |-> k.msgs \o Error(UnrecognizedPrefix \o Join(k.argv))]
        ELSE [result |-> Namespace(k.force, k.monochrome), msgs |-> k.msgs]

\* ------------------------------------------------------- input universe
\* Names a caller registers, names it dispatches, argument strings, lines.
Names == {LOGOUT, HELLO}
DispatchNames == Names \cup {XCMD, UPHELLO}
ArgStrings == {EMPTY, WORLD, FORCE, BOGUS, HFLAG, FORCE \o <<SP, SP>> \o MONO}
Keywords == {None, EMPTY, <<"l">>, LO, <<"L", "o">>, HELLO, HELLO \o <<"o">>}
Lines == {EMPTY, <<SP>>, <<TAB>>, LOGOUT, <<SP>> \o LOGOUT,
          LOGOUT \o <<SP>> \o XCMD, XCMD,
          HELLO, HELLO \o <<SP>> \o WORLD, HELLO \o <<TAB>> \o WORLD,
          HELLO \o <<SP>> \o FORCE, HELLO \o <<SP>> \o BOGUS,
          HELLO \o <<SP>> \o HFLAG}

\* What the terminal can deliver to input(): a line, ^C, or end of file.
Events == {[kind |-> "line", text |-> l] : l \in Lines}
          \cup {[kind |-> "interrupt", text |-> EMPTY],
                [kind |-> "eof", text |-> EMPTY]}

\* (interrupt, eof) arguments of wait_input / interactive: the defaults, and
\* a caller that swaps them.
DefaultFallback == [interrupt |-> EMPTY, eof |-> LOGOUT]
Fallbacks == {DefaultFallback, [interrupt |-> LOGOUT, eof |-> EMPTY]}

\* Handler values a caller registers: the plain handler of the add_command
\* docstring; "__wrapper", the argparse_wrapper'ed hello of test1.py, whose f
\* only prints args; "__wrapper_attr", an argparse_wrapper'ed f that reads an
\* attribute of the parsed arguments it is documented to receive; and a
\* handler that raises.  "logout_func" is the one __init__ registers.
Handlers == {"plain", "__wrapper", "__wrapper_attr", "boom"}
Wrappers == {"__wrapper", "__wrapper_attr"}

\* The (name, handler) pairs a caller stores: any handler under "hello", and
\* the plain handler over the built-in "logout".
Registrations == ({HELLO} \X Handlers) \cup {<<LOGOUT, "plain">>}

\* The tree under study and a second CommandTree a parser may be bound to.
Trees == {"tree", "other"}

\* Reads one interactive() call may make in the model.
MaxSteps == MaxInput + 2

\* ---------------------------------------------------------------- state
VARIABLES
    funcs,       \* self._funcs: sequence of [name, h] in insertion order
    terminated,  \* self.terminated
    pending,     \* names captured by the _decorator closures handed out
    overridable, \* names for which one was handed out with override=True
    ptree,       \* parser._console_tree; test1.py builds the parser with the tree
    budget,      \* lines the input source still holds
    pc,          \* "idle", or where interactive() stands: "check" / "step"
    fb,          \* the (interrupt, eof) arguments of the current call
    out,         \* what self.print received during the last step or dispatch
    outOther,    \* what the other tree's print received during it
    calls,       \* handlers run_command invoked in the last step or dispatch
    inner,       \* calls of the wrapped f made by __wrapper in that step
    err,         \* exception the last operation ended with, or "none"
    res,         \* list returned by the last list_command / find_command
    reads,       \* reads made so far by the current interactive() call
    logoutAt,    \* which of them first dispatched "logout" (0: none yet)
    line,        \* the last event read and the string input() returned
    last         \* the last operation called and its arguments

vars == <<funcs, terminated, pending, overridable, ptree, budget, pc, fb, out, outOther, calls, inner, err,
          res, reads, logoutAt, line, last>>

Op(op, name, arg, flag, h) ==
    [op |-> op, name |-> name, arg |-> arg, flag |-> flag, h |-> h]

NoLine == [kind |-> "none", text |-> EMPTY]

\* ---------------------------------------------------------- dict access
Keys(d) == {d[i].name : i \in 1..Len(d)}

\* list(self._funcs)
ListOf(d) == [i \in 1..Len(d) |-> d[i].name]

\* A lookup that compares names without regard to case.
Lower(c) == IF c = "H" THEN "h" ELSE IF c = "L" THEN "l" ELSE c
LowerStr(s) == [i \in 1..Len(s) |-> Lower(s[i])]
Get_IgnoreCase(d, command, default) ==
    IF \E i \in 1..Len(d) : LowerStr(d[i].name) = LowerStr(command)
    THEN d[CHOOSE i \in 1..Len(d) : LowerStr(d[i].name) = LowerStr(command)].h
    ELSE default

\* self._funcs.get(command, default)
Get(d, command, default) ==
    IF \E i \in 1..Len(d) : d[i].name = command
    THEN d[CHOOSE i \in 1..Len(d) : d[i].name = command].h
    ELSE default

\* `self._funcs = {command: func}` in place of the item assignment.
Put_Rebuild(d, command, func) ==
    <<[name |-> command, h |-> func]>>

\* self._funcs[command] = func
Put(d, command, func) ==
    IF command \in Keys(d)
    THEN [i \in 1..Len(d) |->
              IF d[i].name = command THEN [d[i] EXCEPT !.h = func] ELSE d[i]]
    ELSE Append(d, [name |-> command, h |-> func])

\* CommandTree.__init__
Init ==
    /\ funcs = <<[name |-> LOGOUT, h |-> "logout_func"]>>
    /\ terminated = FALSE
    /\ pending = {}
    /\ overridable = {}
    /\ ptree = "tree"
    /\ budget = MaxInput
    /\ pc = "idle"
    /\ fb = DefaultFallback
    /\ out = <<>>
    /\ outOther = <<>>
    /\ calls = <<>>
    /\ inner = <<>>
    /\ err = "none"
    /\ res = <<>>
    /\ reads = 0
    /\ logoutAt = 0
    /\ line = NoLine
    /\ last = Op("__init__", EMPTY, EMPTY, FALSE, "")

\* ------------------------------------------------------------- handlers
NoEffect ==
    [term |-> FALSE, msgs |-> <<>>, pmsgs |-> <<>>, inner |-> <<>>, err |-> "none"]

\* A command_not_found that prints twice: the message, then the name again.
CommandNotFound_Twice(cmd) ==
    [NoEffect EXCEPT !.msgs = <<Msg("text", cmd \o NotFoundSuffix),
                                Msg("text", cmd)>>]

\* command_not_found
CommandNotFound(cmd) ==
    [NoEffect EXCEPT !.msgs = <<Msg("text", cmd \o NotFoundSuffix)>>]

\* logout, through logout_func
Logout == [NoEffect EXCEPT !.term = TRUE]

\* __wrapper of argparse_wrapper: parse arg.split(" "), then call f with
\* whatever parse_args returned.  Reading pp.force when pp is None raises.
Wrapper(h, cmd, arg) ==
    LET pp == ParseArgs(Split(arg))
    IN  [NoEffect EXCEPT !.pmsgs = pp.msgs,
                         !.inner = <<[cmd |-> cmd, pp |-> pp.result]>>,
                         !.err = IF h = "__wrapper_attr" /\ pp.result.tag = "None"
                                 THEN "AttributeError" ELSE "none"]

\* Calling a handler value with (tree, cmd, arg).
Call(h, cmd, arg) ==
    CASE h = "command_not_found" -> CommandNotFound(cmd)
      [] h = "logout_func" -> Logout
      [] h \in Wrappers -> Wrapper(h, cmd, arg)
      [] h = "boom" -> [NoEffect EXCEPT !.err = "HandlerError"]
      [] OTHER -> NoEffect

\* run_command: the handler looked up, its call, and what the call does.
RunCommandEffect(command, arg) ==
    LET h == Get(funcs, command, "command_not_found")
    IN  [eff |-> Call(h, command, arg),
         calls |-> <<[h |-> h, cmd |-> command, arg |-> arg]>>]

NoDispatch == [eff |-> NoEffect, calls |-> <<>>]

\* input_s with the two except clauses exchanged.
InputS_Swapped(ev, interrupt, eof) ==
    CASE ev.kind = "line" -> ev.text
      [] ev.kind = "interrupt" -> eof
      [] ev.kind = "eof" -> interrupt

\* input_s: the line, or the fallback string for ^C / end of file.
InputS(ev, interrupt, eof) ==
    CASE ev.kind = "line" -> ev.text
      [] ev.kind = "interrupt" -> interrupt
      [] ev.kind = "eof" -> eof

\* wait_input after the flag reset: read, partition, dispatch if len(cmd).
WaitInputEffect(ev, interrupt, eof) ==
    LET input_c == InputS(ev, interrupt, eof)
        p == Partition(input_c)
        cmd == p[1]
        arg == p[3]
    IN  [line |-> input_c,
         d |-> IF Len(cmd) # 0 THEN RunCommandEffect(cmd, arg) ELSE NoDispatch]

\* What the print of tree t receives from an operation with effect e: the
\* handlers write to the dispatching tree, the parser to its own tree.
Written(t, e) ==
    (IF t = "tree" THEN e.msgs ELSE <<>>) \o (IF t = ptree THEN e.pmsgs ELSE <<>>)

\* The input source hands over ev: lines while it has some, then eof.
Deliver(ev) ==
    \/ ev.kind = "eof" /\ budget' = 0
    \/ ev.kind # "eof" /\ budget > 0 /\ budget' = budget - 1

\* ----------------------------------------------------------- operations
\* add_command whose duplicate check forgets `and not override`.
AddCommand_AlwaysRaise(command, override) ==
    /\ pc = "idle"
    /\ IF command \in Keys(funcs)
       THEN err' = "NameError" /\ pending' = pending /\ overridable' = overridable
       ELSE /\ err' = "none"
            /\ pending' = pending \cup {command}
            /\ overridable' = IF override THEN overridable \cup {command}
                               ELSE overridable
    /\ last' = Op("add_command", command, EMPTY, override, "")
    /\ out' = <<>> /\ outOther' = <<>> /\ calls' = <<>> /\ inner' = <<>> /\ res' = <<>>
    /\ reads' = 0 /\ logoutAt' = 0 /\ line' = NoLine /\ fb' = DefaultFallback
    /\ UNCHANGED <<funcs, terminated, ptree, budget, pc>>

\* add_command(command, override): the duplicate check, then the closure.
AddCommand(command, override) ==
    /\ pc = "idle"
    /\ IF command \in Keys(funcs) /\ ~override
       THEN err' = "NameError" /\ pending' = pending /\ overridable' = overridable
       ELSE /\ err' = "none"
            /\ pending' = pending \cup {command}
            /\ overridable' = IF override THEN overridable \cup {command}
                               ELSE overridable
    /\ last' = Op("add_command", command, EMPTY, override, "")
    /\ out' = <<>> /\ outOther' = <<>> /\ calls' = <<>> /\ inner' = <<>> /\ res' = <<>>
    /\ reads' = 0 /\ logoutAt' = 0 /\ line' = NoLine /\ fb' = DefaultFallback
    /\ UNCHANGED <<funcs, terminated, ptree, budget, pc>>

\* _decorator(func), for a closure obtained from add_command(command).
Decorator(command, func) ==
    /\ pc = "idle"
    /\ command \in pending
    /\ funcs' = Put(funcs, command, func)
    /\ err' = "none"
    /\ last' = Op("_decorator", command, EMPTY, FALSE, func)
    /\ out' = <<>> /\ outOther' = <<>> /\ calls' = <<>> /\ inner' = <<>> /\ res' = <<>>
    /\ reads' = 0 /\ logoutAt' = 0 /\ line' = NoLine /\ fb' = DefaultFallback
    /\ UNCHANGED <<terminated, pending, overridable, ptree, budget, pc>>

\* list_command()
ListCommand ==
    /\ pc = "idle"
    /\ res' = ListOf(funcs)
    /\ err' = "none"
    /\ last' = Op("list_command", EMPTY, EMPTY, FALSE, "")
    /\ out' = <<>> /\ outOther' = <<>> /\ calls' = <<>> /\ inner' = <<>>
    /\ reads' = 0 /\ logoutAt' = 0 /\ line' = NoLine /\ fb' = DefaultFallback
    /\ UNCHANGED <<funcs, terminated, pending, overridable, ptree, budget, pc>>

\* The loop of find_command over cmds.
FindResult(cmds, keyword) ==
    SelectSeq(cmds, LAMBDA cmd : Find(cmd, keyword) = 0)

\* find_command(keyword)
FindCommand(keyword) ==
    /\ pc = "idle"
    /\ res' = IF keyword = None THEN ListOf(funcs)
              ELSE FindResult(ListOf(funcs), keyword)
    /\ err' = "none"
    /\ last' = Op("find_command", EMPTY, keyword, FALSE, "")
    /\ out' = <<>> /\ outOther' = <<>> /\ calls' = <<>> /\ inner' = <<>>
    /\ reads' = 0 /\ logoutAt' = 0 /\ line' = NoLine /\ fb' = DefaultFallback
    /\ UNCHANGED <<funcs, terminated, pending, overridable, ptree, budget, pc>>

\* run_command(command, arg), called directly.
RunCommand(command, arg) ==
    /\ pc = "idle"
    /\ LET d == RunCommandEffect(command, arg)
       IN  /\ terminated' = IF d.eff.term THEN TRUE ELSE terminated
           /\ out' = Written("tree", d.eff)
           /\ outOther' = Written("other", d.eff)
           /\ calls' = d.calls
           /\ inner' = d.eff.inner
           /\ err' = d.eff.err
    /\ last' = Op("run_command", command, arg, FALSE, "")
    /\ res' = <<>>
    /\ reads' = 0 /\ logoutAt' = 0 /\ line' = NoLine /\ fb' = DefaultFallback
    /\ UNCHANGED <<funcs, pending, overridable, ptree, budget, pc>>

\* A wait_input without `self.terminated = False`.
WaitInput_NoReset(f, ev) ==
    /\ pc = "idle"
    /\ Deliver(ev)
    /\ fb' = f
    /\ LET w == WaitInputEffect(ev, f.interrupt, f.eof)
       IN  /\ terminated' = IF w.d.eff.term THEN TRUE ELSE terminated
           /\ out' = Written("tree", w.d.eff)
           /\ outOther' = Written("other", w.d.eff)
           /\ calls' = w.d.calls
           /\ inner' = w.d.eff.inner
           /\ err' = w.d.eff.err
           /\ line' = [kind |-> ev.kind, text |-> w.line]
    /\ last' = Op("wait_input", EMPTY, EMPTY, terminated, "")
    /\ res' = <<>>
    /\ reads' = 0 /\ logoutAt' = 0
    /\ UNCHANGED <<funcs, pending, overridable, ptree, pc>>

\* wait_input(prompt, interrupt, eof), called directly.
WaitInput(f, ev) ==
    /\ pc = "idle"
    /\ Deliver(ev)
    /\ fb' = f
    /\ LET w == WaitInputEffect(ev, f.interrupt, f.eof)
       IN  /\ terminated' = w.d.eff.term
           /\ out' = Written("tree", w.d.eff)
           /\ outOther' = Written("other", w.d.eff)
           /\ calls' = w.d.calls
           /\ inner' = w.d.eff.inner
           /\ err' = w.d.eff.err
           /\ line' = [kind |-> ev.kind, text |-> w.line]
    /\ last' = Op("wait_input", EMPTY, EMPTY, terminated, "")
    /\ res' = <<>>
    /\ reads' = 0 /\ logoutAt' = 0
    /\ UNCHANGED <<funcs, pending, overridable, ptree, pc>>

\* interactive(prompt, interrupt, eof) is entered.
Interactive(f) ==
    /\ pc = "idle"
    /\ pc' = "check"
    /\ fb' = f
    /\ err' = "none"
    /\ last' = Op("interactive", EMPTY, EMPTY, terminated, "")
    /\ out' = <<>> /\ outOther' = <<>> /\ calls' = <<>> /\ inner' = <<>> /\ res' = <<>>
    /\ reads' = 0 /\ logoutAt' = 0 /\ line' = NoLine
    /\ UNCHANGED <<funcs, terminated, pending, overridable, ptree, budget>>

\* A loop test that never sees the flag (`while True`).
InteractiveTest_Forever ==
    /\ pc = "check"
    /\ pc' = "step"
    /\ UNCHANGED <<funcs, terminated, pending, overridable, ptree, budget, fb, out, outOther, calls, inner,
                   err, res, reads, logoutAt, line, last>>

\* `while not self.terminated`: go round once more, or return.
InteractiveTest ==
    /\ pc = "check"
    /\ pc' = IF ~terminated THEN "step" ELSE "idle"
    /\ UNCHANGED <<funcs, terminated, pending, overridable, ptree, budget, fb, out, outOther, calls, inner,
                   err, res, reads, logoutAt, line, last>>

\* A loop body wrapped in `try: ... except Exception: pass`.
InteractiveBody_Swallow(ev) ==
    /\ pc = "step"
    /\ reads < MaxSteps
    /\ Deliver(ev)
    /\ LET w == WaitInputEffect(ev, fb.interrupt, fb.eof)
       IN  /\ terminated' = w.d.eff.term
           /\ out' = Written("tree", w.d.eff)
           /\ outOther' = Written("other", w.d.eff)
           /\ calls' = w.d.calls
           /\ inner' = w.d.eff.inner
           /\ err' = "none"
           /\ line' = [kind |-> ev.kind, text |-> w.line]
           /\ reads' = reads + 1
           /\ logoutAt' = IF logoutAt = 0 /\ w.d.calls # <<>>
                             /\ w.d.calls[1].cmd = LOGOUT
                          THEN reads + 1 ELSE logoutAt
           /\ pc' = "check"
    /\ UNCHANGED <<funcs, pending, overridable, ptree, fb, res, last>>

\* The body of the while loop: one wait_input; an exception leaves the loop.
InteractiveBody(ev) ==
    /\ pc = "step"
    /\ reads < MaxSteps
    /\ Deliver(ev)
    /\ LET w == WaitInputEffect(ev, fb.interrupt, fb.eof)
       IN  /\ terminated' = w.d.eff.term
           /\ out' = Written("tree", w.d.eff)
           /\ outOther' = Written("other", w.d.eff)
           /\ calls' = w.d.calls
           /\ inner' = w.d.eff.inner
           /\ err' = w.d.eff.err
           /\ line' = [kind |-> ev.kind, text |-> w.line]
           /\ reads' = reads + 1
           /\ logoutAt' = IF logoutAt = 0 /\ w.d.calls # <<>>
                             /\ w.d.calls[1].cmd = LOGOUT
                          THEN reads + 1 ELSE logoutAt
           /\ pc' = IF w.d.eff.err # "none" THEN "idle" ELSE "check"
    /\ UNCHANGED <<funcs, pending, overridable, ptree, fb, res, last>>

Next ==
    \/ \E command \in Names, override \in BOOLEAN : AddCommand(command, override)
    \/ \E r \in Registrations : Decorator(r[1], r[2])
    \/ ListCommand
    \/ \E keyword \in Keywords : FindCommand(keyword)
    \/ \E command \in DispatchNames, arg \in ArgStrings : RunCommand(command, arg)
    \/ \E f \in Fallbacks, ev \in Events : WaitInput(f, ev)
    \/ \E f \in Fallbacks : Interactive(f)
    \/ InteractiveTest
    \/ \E ev \in Events : InteractiveBody(ev)

Spec == Init /\ [][Next]_vars

\* A parser built with tree= either CommandTree: the one its wrapped handler
\* is registered on, or another one.
InitAnyTree ==
    /\ funcs = <<[name |-> LOGOUT, h |-> "logout_func"]>>
    /\ terminated = FALSE
    /\ pending = {}
    /\ overridable = {}
    /\ ptree \in Trees
    /\ budget = MaxInput
    /\ pc = "idle"
    /\ fb = DefaultFallback
    /\ out = <<>>
    /\ outOther = <<>>
    /\ calls = <<>>
    /\ inner = <<>>
    /\ err = "none"
    /\ res = <<>>
    /\ reads = 0
    /\ logoutAt = 0
    /\ line = NoLine
    /\ last = Op("__init__", EMPTY, EMPTY, FALSE, "")

SpecAnyTree == InitAnyTree /\ [][Next]_vars

\* interactive() keeps running: its loop test and its body are taken as long
\* as they can be.
FairSpec ==
    Spec /\ WF_vars(InteractiveTest) /\ WF_vars(\E ev \in Events : InteractiveBody(ev))

\* ------------------------------------------------------------ properties
\* The handler stored under name, as a set (empty when name is not a key).
Stored(name) == {funcs[i].h : i \in {j \in 1..Len(funcs) : funcs[j].name = name}}

\* s is made of whitespace only (empty after trimming).
IsBlank(s) == \A i \in 1..Len(s) : s[i] \in Whitespace

StartsWith(s, prefix) ==
    Len(prefix) <= Len(s) /\ SubSeq(s, 1, Len(prefix)) = prefix

\* C1: whenever a dispatch ran an argparse_wrapper'ed handler and the parser
\* reported a help request or a usage error (parse_args gave no structured
\* result), the wrapped inner handler was not invoked by that dispatch.
C1_NoInnerCallOnParseFailure ==
    \A i \in 1..Len(calls) :
        (calls[i].h \in Wrappers
         /\ ParseArgs(Split(calls[i].arg)).result.tag = "None")
        => inner = <<>>

\* C2: every interactive() call that has ended made at least one read,
\* whatever the value of the flag when it was entered.
C2_RunReadsAtLeastOnce ==
    (last.op = "interactive" /\ pc = "idle") => reads >= 1

\* C3: add_command of a name that is in the registry, without override,
\* raises NameError and changes nothing in the registry; with override it
\* succeeds and hands out the decorator; applying a decorator stores the
\* handler under its name and touches no other entry; and a dispatch of a
\* name invokes the handler stored under it now, hence only the new one.
C3_DuplicateAndOverride ==
    [][/\ (last'.op = "add_command" /\ last'.name \in Keys(funcs) /\ ~last'.flag)
          => (err' = "NameError" /\ funcs' = funcs /\ pending' = pending)
       /\ (last'.op = "add_command" /\ last'.flag)
          => (err' = "none" /\ last'.name \in pending' /\ funcs' = funcs)
       /\ (last'.op = "_decorator")
          => /\ err' = "none"
             /\ Keys(funcs') = Keys(funcs) \cup {last'.name}
             /\ \A n \in Keys(funcs') :
                    {funcs'[i].h : i \in {j \in 1..Len(funcs') : funcs'[j].name = n}}
                    = IF n = last'.name THEN {last'.h}
                      ELSE {funcs[i].h : i \in {j \in 1..Len(funcs) : funcs[j].name = n}}
       /\ (last'.op = "run_command" /\ last'.name \in Keys(funcs))
          => (Len(calls') = 1 /\ {calls'[1].h} = Stored(last'.name))
      ]_vars

C3_Witness ==
    /\ last.op = "add_command" /\ last.name = LOGOUT /\ ~last.flag
    /\ err = "NameError"
    /\ Stored(LOGOUT) = {"plain"}

\* C4: a dispatch of a registered name N invokes the handler stored under
\* exactly N once, with (N, arg), and nothing else: the handler's own effect
\* is what happened and command_not_found wrote nothing.
C4_DispatchInvokesExactlyH ==
    /\ Len(calls) <= 1
    /\ \A i \in 1..Len(calls) :
           calls[i].h # "command_not_found" => {calls[i].h} = Stored(calls[i].cmd)
    /\ \A i \in 1..Len(calls) :
           calls[i].cmd \in Keys(funcs) =>
               /\ {calls[i].h} = Stored(calls[i].cmd)
               /\ \A k \in 1..Len(out) : out[k].kind # "text"
               /\ (calls[i].h = "logout_func") => terminated
               /\ (calls[i].h = "boom") = (err = "HandlerError")
               /\ (calls[i].h \in Wrappers) = (inner # <<>>)
    /\ (last.op = "run_command" /\ last.name \in Keys(funcs))
       => calls = <<[h |-> CHOOSE h \in Stored(last.name) : TRUE,
                     cmd |-> last.name, arg |-> last.arg]>>

C4_Witness ==
    /\ last.op = "run_command" /\ last.name = HELLO /\ last.arg = WORLD
    /\ UPHELLO \notin Keys(funcs)
    /\ calls = <<[h |-> "plain", cmd |-> HELLO, arg |-> WORLD]>>

\* C5: a dispatch of a name N that is not in the registry writes exactly
\* the one message "N: command not found" to the tree's output, raises
\* nothing, invokes no registered handler, and changes neither the registry
\* nor the flag.
C5_CommandNotFound ==
    [][(last'.op = "run_command" /\ last'.name \notin Keys(funcs))
       => /\ out' = <<[kind |-> "text", text |-> last'.name \o NotFoundSuffix]>>
          /\ outOther' = <<>>
          /\ err' = "none"
          /\ inner' = <<>>
          /\ Len(calls') = 1 /\ calls'[1].h = "command_not_found"
          /\ funcs' = funcs
          /\ terminated' = terminated
      ]_vars

C5_Witness ==
    /\ last.op = "run_command" /\ last.name = UPHELLO
    /\ HELLO \in Keys(funcs)
    /\ out = <<[kind |-> "text", text |-> UPHELLO \o NotFoundSuffix]>>

\* C6: a step that read a line which is empty after trimming whitespace
\* dispatched nothing, wrote nothing, and left the flag false.
C6_BlankLineNoDispatch ==
    (line.kind # "none" /\ IsBlank(line.text))
    => (calls = <<>> /\ out = <<>> /\ outOther = <<>> /\ ~terminated)

\* C7: find_command(keyword) returns, each once, exactly the registered
\* names that start with keyword (all of them when keyword is None or empty,
\* none when nothing matches), list_command() exactly the registered names,
\* and neither changes the registry, the decorators handed out or the flag.
C7_FindAndList ==
    [][/\ (last'.op = "list_command")
          => /\ {res'[i] : i \in 1..Len(res')} = Keys(funcs)
             /\ Len(res') = Cardinality(Keys(funcs))
             /\ funcs' = funcs /\ terminated' = terminated /\ pending' = pending
       /\ (last'.op = "find_command")
          => /\ {res'[i] : i \in 1..Len(res')}
                = {n \in Keys(funcs) :
                       last'.arg = None \/ StartsWith(n, last'.arg)}
             /\ \A i, j \in 1..Len(res') : res'[i] = res'[j] => i = j
             /\ funcs' = funcs /\ terminated' = terminated /\ pending' = pending
      ]_vars

C7_Witness ==
    /\ last.op = "find_command" /\ last.arg = LO
    /\ HELLO \in Keys(funcs)
    /\ res = <<LOGOUT>>

\* C8: an interactive() call entered with the flag false on a tree whose
\* "logout" is the built-in one never reads after a step that dispatched
\* "logout", and when it has returned its number of reads is the position of
\* the first such line; a line "hello world" read on the way was dispatched
\* to the handler of "hello" with argument "world".
C8_RunStopsAtFirstLogout ==
    (last.op = "interactive" /\ ~last.flag /\ Stored(LOGOUT) = {"logout_func"})
    => /\ (pc = "step") => (logoutAt = 0 /\ ~terminated)
       /\ (pc = "check" /\ logoutAt # 0) => (logoutAt = reads /\ terminated)
       /\ (pc = "idle" /\ err = "none") => (reads >= 1 /\ logoutAt = reads)
       /\ (line.text = HELLO \o <<SP>> \o WORLD /\ Stored(HELLO) = {"plain"})
          => calls = <<[h |-> "plain", cmd |-> HELLO, arg |-> WORLD]>>

C8_Witness ==
    /\ last.op = "interactive" /\ ~last.flag /\ Stored(LOGOUT) = {"logout_func"}
    /\ pc = "idle" /\ err = "none"
    /\ reads = 2 /\ logoutAt = 2
    /\ line = [kind |-> "line", text |-> LOGOUT]

\* C9: with the default fallbacks and the built-in "logout", a step that met
\* end of input read the line "logout", invoked logout_func and set the
\* flag without raising; a step that met an interrupt read the empty line,
\* dispatched nothing and left the flag false; and every interactive() call
\* comes to an end.
C9_EofLogsOut ==
    /\ []((line.kind = "eof" /\ fb = DefaultFallback
           /\ Stored(LOGOUT) = {"logout_func"})
          => /\ line.text = LOGOUT
             /\ calls = <<[h |-> "logout_func", cmd |-> LOGOUT, arg |-> EMPTY]>>
             /\ terminated
             /\ err = "none"
             /\ pc \in {"idle", "check"})
    /\ []((line.kind = "interrupt" /\ fb = DefaultFallback)
          => (line.text = EMPTY /\ calls = <<>> /\ out = <<>> /\ ~terminated
              /\ err = "none"))
    /\ ((pc # "idle" /\ fb = DefaultFallback /\ Stored(LOGOUT) = {"logout_func"})
        ~> (pc = "idle" /\ last.op = "interactive"
            /\ (err = "none" => terminated)))

C9_Witness ==
    /\ last.op = "interactive" /\ pc = "idle" /\ fb = DefaultFallback
    /\ line = [kind |-> "eof", text |-> LOGOUT]
    /\ reads >= 2 /\ logoutAt = reads
    /\ terminated /\ err = "none"

\* C10: when a line read by interactive() was dispatched to an
\* argparse_wrapper'ed handler and the parser reported a help request or a
\* usage error, the step raised nothing, did not set the flag, and
\* interactive() has not ended.
C10_ParseFailureKeepsLoop ==
    (/\ last.op = "interactive" /\ reads >= 1
     /\ Len(calls) = 1 /\ calls[1].h \in Wrappers
     /\ ParseArgs(Split(calls[1].arg)).result.tag = "None")
    => (err = "none" /\ ~terminated /\ pc # "idle")

\* C11: when a handler invoked by a dispatch raises, the dispatch, the step
\* and interactive() end with that error, interactive() reads nothing more
\* (its loop is only ever running with no error raised), and the registry
\* and the decorators handed out are as they were.
C11_HandlerErrorPropagates ==
    [][/\ (Len(calls') = 1 /\ calls'[1].h = "boom")
          => /\ err' = "HandlerError"
             /\ pc' = "idle"
             /\ funcs' = funcs /\ pending' = pending
       /\ (pc = "step" /\ Len(calls') = 1 /\ calls'[1].h = "boom")
          => (reads' = reads + 1 /\ last' = last)
       /\ (pc' # "idle") => (err' = "none")
      ]_vars

C11_Witness ==
    /\ last.op = "interactive" /\ pc = "idle"
    /\ err = "HandlerError"
    /\ calls = <<[h |-> "boom", cmd |-> HELLO, arg |-> WORLD]>>
    /\ reads = 1 /\ budget = MaxInput - 1

\* C12: every step that read a line with at least one non-whitespace
\* character performed exactly one dispatch.
C12_NonBlankLineDispatched ==
    (line.kind # "none" /\ ~IsBlank(line.text)) => Len(calls) = 1

\* C13: a step leaves the flag true exactly when a handler set it during
\* that step, whatever the flag was before: with the handlers of the model,
\* exactly when the step dispatched to logout_func.
C13_FlagClearedEveryStep ==
    [][(pc = "step" \/ (pc = "idle" /\ last'.op = "wait_input"))
       => terminated' = (Len(calls') = 1 /\ calls'[1].h = "logout_func")
      ]_vars

C13_Witness ==
    /\ last.op = "wait_input" /\ last.flag
    /\ Len(calls) = 1 /\ calls[1].h = "plain"
    /\ ~terminated

\* C14: a decorator stores its handler over an existing entry only if a
\* decorator for that name was handed out with override=True.
C14_NoSilentReplace ==
    [][(last'.op = "_decorator" /\ last'.name \notin overridable)
       => last'.name \notin Keys(funcs)
      ]_vars

\* The non-empty pieces of s between whitespace characters.
RECURSIVE Tokens(_)
Tokens(s) ==
    IF s = <<>> THEN <<>>
    ELSE IF s[1] \in Whitespace THEN Tokens(Tail(s))
    ELSE LET ws == {i \in 1..Len(s) : s[i] \in Whitespace}
         IN  IF ws = {} THEN <<s>>
             ELSE <<SubSeq(s, 1, SetMin(ws) - 1)>>
                  \o Tokens(SubSeq(s, SetMin(ws) + 1, Len(s)))

\* What the print of the tree the parser is bound to received, and what the
\* print of the other of the two trees received.
ParserOut == IF ptree = "tree" THEN out ELSE outOther
NonParserOut == IF ptree = "tree" THEN outOther ELSE out

\* C15: whatever tree the parser was built with, a dispatch of an
\* argparse_wrapper'ed handler writes the parser's help and usage
\* diagnostics to the output of the tree that dispatched it, and nothing to
\* another tree's output.
C15_DiagnosticsOnDispatchingTree ==
    /\ outOther = <<>>
    /\ \A i \in 1..Len(calls) :
           calls[i].h \in Wrappers => out = ParseArgs(Split(calls[i].arg)).msgs

\* C16: a step dispatches the text before the first whitespace character of
\* the line as the command, which is non-empty and holds no whitespace, and
\* everything after that one separator as the argument; a line without
\* whitespace is dispatched whole, with the empty argument.
C16_SplitAtFirstWhitespace ==
    (line.kind # "none" /\ Len(calls) = 1)
    => LET t == line.text
           ws == {i \in 1..Len(t) : t[i] \in Whitespace}
       IN  /\ calls[1].cmd # EMPTY
           /\ \A i \in 1..Len(calls[1].cmd) : calls[1].cmd[i] \notin Whitespace
           /\ IF ws = {}
              THEN calls[1].cmd = t /\ calls[1].arg = EMPTY
              ELSE /\ calls[1].cmd = SubSeq(t, 1, SetMin(ws) - 1)
                   /\ calls[1].arg = SubSeq(t, SetMin(ws) + 1, Len(t))

\* C17: an argparse_wrapper'ed handler gives its f the result of parsing
\* the non-empty whitespace-separated tokens of the argument string, so the
\* empty argument string gives f the defaults and prints nothing.
C17_OnlyNonEmptyTokens ==
    \A i \in 1..Len(calls) :
        calls[i].h \in Wrappers
        => /\ Len(inner) = 1
           /\ inner[1].pp = ParseArgs(Tokens(calls[i].arg)).result
           /\ ParserOut = ParseArgs(Tokens(calls[i].arg)).msgs
           /\ calls[i].arg = EMPTY
              => (inner[1].pp = Namespace(FALSE, FALSE) /\ ParserOut = <<>>)

C19_RegistryNeverShrinks ==
    [][/\ Keys(funcs) \subseteq Keys(funcs')
       /\ LOGOUT \in Keys(funcs')
       /\ (funcs' # funcs) => (last'.op = "_decorator" /\ err' = "none")
       /\ (Len(calls') = 1 /\ calls'[1].h = "logout_func")
          => /\ terminated'
             /\ out' = <<>> /\ outOther' = <<>> /\ inner' = <<>>
             /\ err' = "none"
             /\ funcs' = funcs /\ pending' = pending
      ]_vars

C19_Witness ==
    /\ last.op = "interactive" /\ pc = "idle" /\ reads = 2
    /\ Keys(funcs) = {LOGOUT, HELLO}
    /\ calls = <<[h |-> "logout_func", cmd |-> LOGOUT, arg |-> XCMD]>>
    /\ terminated /\ out = <<>>

====
